---- MODULE Spec2Model ----
(***************************************************************************)
(* BetterDataProvider of openlibrary/solr/data_provider.py: a batching,    *)
(* read-through cache in front of the document store (site.get_many and    *)
(* site.things), the raw edition/work join (db.query) and the archive.org  *)
(* metadata table (ia_db.select).                                          *)
(*                                                                         *)
(* A key "/<ns>/<prefix><digits><letter><rest>" is the tuple               *)
(* <<ns, prefix, digits, letter, rest>>: digits is the whole run of digits *)
(* after the prefix (-1 stands for an empty run), letter the one character *)
(* after it ("" at the end of the key) and rest the text after the letter. *)
(* A Python dict that the code iterates is a sequence in insertion order;  *)
(* a dict that is only looked up is a function.                            *)
(***************************************************************************)
EXTENDS Integers, Sequences, FiniteSets, TLC

VARIABLES
    cache,                        \* self.cache: documents, in insertion order
    metadata_cache,               \* self.metadata_cache: identifier -> row or None
    redirect_cache,               \* self.redirect_cache: key -> keys redirecting to it
    edition_keys_of_works_cache,  \* work key -> edition keys, in insertion order
    ia_db,                        \* whether self.ia_db is set
    joined,                       \* work keys sent in a completed join since the last clear
    failed,                       \* whether a backing call has failed since the last clear
    ops,                          \* operations since the last clear
    last                          \* the last operation: arguments, outcome, backing calls

vars == <<cache, metadata_cache, redirect_cache, edition_keys_of_works_cache,
          ia_db, joined, failed, ops, last>>

caches == <<cache, metadata_cache, redirect_cache, edition_keys_of_works_cache>>

(***************************************************************************)
(* Bounds of the model.                                                    *)
(***************************************************************************)
\* number of editions of the big work: one more than a chunk holds
BulkN == 101
\* a backing call fails at position 1..MaxFail of an operation, or not at all
MaxFail == 2
\* operations per session (clear_cache starts a new session)
MaxOps == 2

(***************************************************************************)
(* Python values.                                                          *)
(***************************************************************************)
PyNone == [t |-> "None"]
Str(s) == [t |-> "str", v |-> s]
List(l) == [t |-> "list", v |-> l]

\* bool(x) of None, a str or a list
Truthy(x) == x.t # "None" /\ x.v # <<>>

\* d.get(f, dflt)
Get(d, f, dflt) == IF f \in DOMAIN d THEN d[f] ELSE dflt

Range(s) == {s[i] : i \in DOMAIN s}

Min(a, b) == IF a < b THEN a ELSE b

\* the elements of s, each once, in order of first occurrence
Dedupe(s) ==
    LET first == SelectSeq([i \in 1..Len(s) |-> i],
                           LAMBDA i : \A j \in 1..(i - 1) : s[j] # s[i])
    IN [n \in 1..Len(first) |-> s[first[n]]]

\* loops over a long sequence are folded by halves, left half first
FirstHalf(s) == SubSeq(s, 1, Len(s) \div 2)
SecondHalf(s) == SubSeq(s, Len(s) \div 2 + 1, Len(s))

(***************************************************************************)
(* Keys.                                                                   *)
(***************************************************************************)
Book(n) == <<"books", "OL", n, "M", "">>
Work(n) == <<"works", "OL", n, "W", "">>
Author(n) == <<"authors", "OL", n, "A", "">>

\* "/books/ia:item1": an archive.org pseudo-key
IaKey == <<"books", "ia:item", 1, "", "">>
\* "/subjects/fiction"
SubjectKey == <<"subjects", "fiction", -1, "", "">>
\* "/books/OL1M/title": the key of an edition with text after it
TitleKey == <<"books", "OL", 1, "M", "/title">>

\* re_key.match(k) for re_key = /(books|works|authors)/OL\d+[MWA]: match()
\* anchors the pattern at the start of k only, the rest of k is free
re_key_match(k) ==
    /\ k[1] \in {"books", "works", "authors"}
    /\ k[2] = "OL"
    /\ k[3] >= 0
    /\ k[4] \in {"M", "W", "A"}

\* k.startswith(("/works/", "/authors/"))
startswith_works_authors(k) == k[1] \in {"works", "authors"}

(***************************************************************************)
(* The backing store: unchanging for the lifetime of a provider.           *)
(***************************************************************************)
Type(t) == [key |-> t]

Edition(k, ws, as, oc) ==
    IF oc = ""
    THEN [key |-> k, type |-> Type("/type/edition"),
          works |-> [i \in 1..Len(ws) |-> [key |-> ws[i]]],
          authors |-> [i \in 1..Len(as) |-> [key |-> as[i]]]]
    ELSE [key |-> k, type |-> Type("/type/edition"),
          works |-> [i \in 1..Len(ws) |-> [key |-> ws[i]]],
          authors |-> [i \in 1..Len(as) |-> [key |-> as[i]]],
          ocaid |-> oc]

WorkDoc(k, as) ==
    [key |-> k, type |-> Type("/type/work"),
     authors |-> [i \in 1..Len(as) |-> [author |-> [key |-> as[i]]]]]

AuthorDoc(k) == [key |-> k, type |-> Type("/type/author")]

RedirectDoc(k, to) == [key |-> k, type |-> Type("/type/redirect"), location |-> to]

\* the big work and its BulkN editions
BulkWork == Work(100)
BulkEdition(i) == Book(100 + i)
BulkEditions == [i \in 1..BulkN |-> BulkEdition(i)]

\* editions in the order in which the join returns them
EditionDocs ==
    << Edition(Book(1), <<Work(1)>>, <<Author(1)>>, "item1"),
       Edition(Book(2), <<Work(2), Work(1)>>, <<Author(3)>>, "item2"),
       Edition(Book(3), <<>>, <<>>, "") >>
    \o [i \in 1..BulkN |-> Edition(BulkEdition(i), <<BulkWork>>, <<>>, "")]

\* redirect records in the order in which things() returns them
RedirectDocs ==
    << RedirectDoc(Work(4), Work(1)),
       RedirectDoc(Author(5), Author(1)),
       RedirectDoc(Author(6), Author(1)) >>

OtherDocs ==
    << WorkDoc(Work(1), <<Author(2)>>),
       WorkDoc(Work(2), <<>>),
       WorkDoc(Work(3), <<Author(1)>>),
       WorkDoc(BulkWork, <<>>),
       AuthorDoc(Author(1)),
       AuthorDoc(Author(2)),
       AuthorDoc(Author(3)) >>

Docs == Range(EditionDocs) \cup Range(RedirectDocs) \cup Range(OtherDocs)

StoreKeys == {d.key : d \in Docs}

Thing(k) == CHOOSE d \in Docs : d.key = k

\* a key that matches the pattern and is not in the store
MissingBook == Book(9)

\* text of the metadata table: a string is the sequence of its characters
MetadataRows ==
    << [identifier |-> "item1",
        publisher |-> Str(<<"A", ";", "B", ";", "C">>),
        collection |-> Str(<<"x">>),
        isbn |-> Str(<<>>),
        creator |-> PyNone] >>

(***************************************************************************)
(* The backing collaborators, as the provider calls them.                  *)
(***************************************************************************)
\* site.get_many(keys): the records of the keys that exist
get_many(keys) ==
    LET found == SelectSeq(keys, LAMBDA k : k \in StoreKeys)
    IN [i \in 1..Len(found) |-> Thing(found[i])]

\* the (edition, work) rows of one edition: one per `works` reference to a thing
RowsOf(doc) ==
    LET ws == SelectSeq(Get(doc, "works", <<>>), LAMBDA w : w.key \in StoreKeys)
    IN [i \in 1..Len(ws) |-> [edition_key |-> doc.key, work_key |-> ws[i].key]]

\* the lists of ss, one after the other
RECURSIVE Concat(_)
Concat(ss) ==
    IF ss = <<>> THEN <<>>
    ELSE IF Len(ss) = 1 THEN ss[1]
    ELSE Concat(FirstHalf(ss)) \o Concat(SecondHalf(ss))

AllRows == Concat([i \in 1..Len(EditionDocs) |-> RowsOf(EditionDocs[i])])

\* db.query(q, vars=dict(keys=work_keys)): rows with work.key in $keys
db_query(work_keys) ==
    LET asked == Range(work_keys)
    IN SelectSeq(AllRows, LAMBDA r : r.work_key \in asked)

\* site.things({type: /type/redirect, location: keys, a:location: None}, details=True)
things(keys) ==
    LET asked == Range(keys)
        hits == SelectSeq(RedirectDocs, LAMBDA d : d.location \in asked)
    IN [i \in 1..Len(hits) |-> [key |-> hits[i].key, location |-> hits[i].location]]

\* ia_db.select('metadata', where='identifier IN $identifiers')
ia_db_select(identifiers) ==
    SelectSeq(MetadataRows, LAMBDA r : r.identifier \in Range(identifiers))

(***************************************************************************)
(* The provider while one public method runs.  m.raised is the exception   *)
(* in flight ("" for none): every step below passes an m that has raised   *)
(* through unchanged, which is how the exception leaves the method.        *)
(* m.calls logs the backing calls in order; call number m.failAt fails.    *)
(* m.pass names the step of preload_documents that is running ("" when a   *)
(* public method calls the fetch directly) and is logged with each call.   *)
(* m.order[1] and m.order[2] say in which order the set keys2 and the set  *)
(* of author keys are iterated in this call.                               *)
(***************************************************************************)
CacheKeys(c) == {c[i].key : i \in DOMAIN c}

\* self.cache[k]
CacheGet(c, k) == c[CHOOSE i \in DOMAIN c : c[i].key = k]

\* for doc in docs: self.cache[doc['key']] = doc.dict()
\* (a key already present keeps its place and takes the last record given for it;
\* new keys are appended in the order in which they first occur)
CachePutAll(c, docs) ==
    LET given == {docs[j].key : j \in DOMAIN docs}
        cached == CacheKeys(c)
        LastDoc(k) == LET Js == {j \in DOMAIN docs : docs[j].key = k}
                      IN docs[CHOOSE j \in Js : \A n \in Js : n <= j]
        new == Dedupe(SelectSeq([j \in 1..Len(docs) |-> docs[j].key],
                                LAMBDA k : k \notin cached))
    IN [i \in 1..Len(c) |-> IF c[i].key \in given THEN LastDoc(c[i].key) ELSE c[i]]
       \o [n \in 1..Len(new) |-> LastDoc(new[n])]

\* keys of self.edition_keys_of_works_cache
IndexKeys(ix) == {ix[i].work_key : i \in DOMAIN ix}

\* self.edition_keys_of_works_cache.get(wkey, [])
IndexGet(ix, wkey) ==
    IF wkey \in IndexKeys(ix)
    THEN ix[CHOOSE i \in DOMAIN ix : ix[i].work_key = wkey].edition_keys
    ELSE <<>>

\* for row in result:
\*     self.edition_keys_of_works_cache.setdefault(row.work_key, []).append(row.edition_key)
\* (an indexed work keeps its place and its list grows by its rows, in row order;
\* new works are appended in the order in which they first occur)
IndexAppendAll(ix, rows) ==
    LET EditionsOf(w) ==
            LET rs == SelectSeq(rows, LAMBDA r : r.work_key = w)
            IN [j \in 1..Len(rs) |-> rs[j].edition_key]
        indexed == IndexKeys(ix)
        new == Dedupe(SelectSeq([j \in 1..Len(rows) |-> rows[j].work_key],
                                LAMBDA w : w \notin indexed))
    IN [i \in 1..Len(ix) |->
          [ix[i] EXCEPT !.edition_keys = @ \o EditionsOf(ix[i].work_key)]]
       \o [n \in 1..Len(new) |->
             [work_key |-> new[n], edition_keys |-> EditionsOf(new[n])]]

\* n!
RECURSIVE Factorial(_)
Factorial(n) == IF n <= 1 THEN 1 ELSE n * Factorial(n - 1)

\* the p-th arrangement of the sequence s: every arrangement of s is the
\* p-th for one p in 0..(Len(s)! - 1)
RECURSIVE Arrangement(_, _)
Arrangement(s, p) ==
    IF Len(s) <= 1 THEN s
    ELSE LET n == Len(s)
             i == (p % n) + 1
         IN <<s[i]>> \o Arrangement(SubSeq(s, 1, i - 1) \o SubSeq(s, i + 1, n), p \div n)

\* iteration of a set built from the list s: each key once, in an order that
\* the hashes of the keys decide, here the p-th arrangement
SetOrder(s, p) == Arrangement(Dedupe(s), p)

\* web.group(seq, size)
group(s, size) ==
    [i \in 1..((Len(s) + size - 1) \div size) |->
        SubSeq(s, (i - 1) * size + 1, Min(i * size, Len(s)))]

\* one call of a backing collaborator
Call(m, kind, keys) ==
    LET n == Len(m.calls) + 1
        entry == [kind |-> kind, keys |-> keys, ok |-> n # m.failAt,
                  cached |-> IF kind = "get_many"
                             THEN Range(keys) \cap CacheKeys(m.cache)
                             ELSE {},
                  pass |-> m.pass]
    IN [m EXCEPT !.calls = Append(@, entry),
                 !.raised = IF n = m.failAt THEN "BackingError" ELSE ""]

ChunkSize == 100

\* for chunk in web.group(keys, 100): docs = get_many(chunk); cache them
RECURSIVE FetchChunks(_, _)
FetchChunks(m, chunks) ==
    IF m.raised # "" \/ chunks = <<>> THEN m
    ELSE LET m1 == Call(m, "get_many", Head(chunks))
         IN IF m1.raised # "" THEN m1
            ELSE FetchChunks(
                   [m1 EXCEPT !.cache = CachePutAll(@, get_many(Head(chunks)))],
                   Tail(chunks))

\* as preload_documents0, caching nothing unless every chunk arrives
preload_documents0_all_or_nothing(m, keys) ==
    IF m.raised # "" THEN m
    ELSE LET cached == CacheKeys(m.cache)
             ks == SelectSeq(keys, LAMBDA k : k \notin cached)
             m1 == FetchChunks(m, group(ks, ChunkSize))
         IN IF ks = <<>> THEN m
            ELSE IF m1.raised # "" THEN [m1 EXCEPT !.cache = m.cache]
            ELSE m1

\* as preload_documents0, asking for all the keys in one get_many call
preload_documents0_unchunked(m, keys) ==
    IF m.raised # "" THEN m
    ELSE LET cached == CacheKeys(m.cache)
             ks == SelectSeq(keys, LAMBDA k : k \notin cached)
         IN IF ks = <<>> THEN m ELSE FetchChunks(m, <<ks>>)

preload_documents0(m, keys) ==
    IF m.raised # "" THEN m
    ELSE LET cached == CacheKeys(m.cache)
             ks == SelectSeq(keys, LAMBDA k : k \notin cached)
         IN IF ks = <<>> THEN m ELSE FetchChunks(m, group(ks, ChunkSize))

IsType(doc, t) == doc.type.key = t

_preload_works(m) ==
    IF m.raised # "" THEN m
    ELSE LET eds == SelectSeq(m.cache, LAMBDA doc :
                        IsType(doc, "/type/edition") /\ Get(doc, "works", <<>>) # <<>>)
             keys == [i \in 1..Len(eds) |-> eds[i].works[1].key]
         IN preload_documents0(m, keys)

\* as AuthorKeysOf, reading every `authors` list in the shape works use
AuthorKeysOf_work_shape_only(doc) ==
    LET as == Get(doc, "authors", <<>>)
    IN IF IsType(doc, "/type/work") THEN [i \in 1..Len(as) |-> as[i].author.key]
       ELSE <<>>

\* the author keys one cached document contributes
AuthorKeysOf(doc) ==
    LET as == Get(doc, "authors", <<>>)
    IN IF IsType(doc, "/type/work") THEN [i \in 1..Len(as) |-> as[i].author.key]
       ELSE IF IsType(doc, "/type/edition") THEN [i \in 1..Len(as) |-> as[i].key]
       ELSE <<>>

_preload_authors(m) ==
    IF m.raised # "" THEN m
    ELSE LET keys == Concat([i \in 1..Len(m.cache) |-> AuthorKeysOf(m.cache[i])])
         IN preload_documents0(m, SetOrder(keys, m.order[2]))

\* as preload_editions_of_works, without skipping the work keys already indexed
preload_editions_of_works_unfiltered(m, work_keys) ==
    IF m.raised # "" THEN m
    ELSE IF work_keys = <<>> THEN m
    ELSE LET m1 == Call(m, "query", work_keys)
             m2 == [m1 EXCEPT !.edition_keys_of_works_cache =
                                  IndexAppendAll(@, db_query(work_keys))]
             ix == m2.edition_keys_of_works_cache
             keys == Concat([i \in 1..Len(ix) |-> ix[i].edition_keys])
         IN IF m1.raised # "" THEN m1 ELSE preload_documents0(m2, keys)

\* as preload_editions_of_works, skipping the work keys found in the document cache
preload_editions_of_works_wrong_dict(m, work_keys) ==
    IF m.raised # "" THEN m
    ELSE LET cached == CacheKeys(m.cache)
             wks == SelectSeq(work_keys, LAMBDA wkey : wkey \notin cached)
         IN IF wks = <<>> THEN m
            ELSE LET m1 == Call(m, "query", wks)
                     m2 == [m1 EXCEPT !.edition_keys_of_works_cache =
                                          IndexAppendAll(@, db_query(wks))]
                     ix == m2.edition_keys_of_works_cache
                     keys == Concat([i \in 1..Len(ix) |-> ix[i].edition_keys])
                 IN IF m1.raised # "" THEN m1 ELSE preload_documents0(m2, keys)

preload_editions_of_works(m, work_keys) ==
    IF m.raised # "" THEN m
    ELSE LET indexed == IndexKeys(m.edition_keys_of_works_cache)
             wks == SelectSeq(work_keys, LAMBDA wkey : wkey \notin indexed)
         IN IF wks = <<>> THEN m
            ELSE LET m1 == Call(m, "query", wks)
                     m2 == [m1 EXCEPT !.edition_keys_of_works_cache =
                                          IndexAppendAll(@, db_query(wks))]
                     ix == m2.edition_keys_of_works_cache
                     keys == Concat([i \in 1..Len(ix) |-> ix[i].edition_keys])
                 IN IF m1.raised # "" THEN m1 ELSE preload_documents0(m2, keys)

_preload_editions(m) ==
    IF m.raised # "" THEN m
    ELSE LET ws == SelectSeq(m.cache, LAMBDA doc : IsType(doc, "/type/work"))
         IN preload_editions_of_works(m, [i \in 1..Len(ws) |-> ws[i].key])

\* for row in rows: self.metadata_cache[row.identifier] = row
StoreRows(mc, rows) ==
    [id \in DOMAIN mc \cup {rows[i].identifier : i \in DOMAIN rows} |->
        IF \E i \in DOMAIN rows : rows[i].identifier = id
        THEN LET Hit == {i \in DOMAIN rows : rows[i].identifier = id}
             IN rows[CHOOSE i \in Hit : \A j \in Hit : j <= i]
        ELSE mc[id]]

\* as DefaultNone, marking nothing absent
DefaultNone_skipped(mc, identifiers) == mc

\* for id in identifiers: self.metadata_cache.setdefault(id, None)
DefaultNone(mc, identifiers) ==
    [id \in DOMAIN mc \cup Range(identifiers) |->
        IF id \in DOMAIN mc THEN mc[id] ELSE PyNone]

preload_metadata(m, identifiers) ==
    IF m.raised # "" THEN m
    ELSE LET ids == SelectSeq(identifiers, LAMBDA id : id \notin DOMAIN m.metadata_cache)
         IN IF ~(ids # <<>> /\ m.ia_db) THEN m
            ELSE LET m1 == Call(m, "select", ids)
                 IN IF m1.raised # "" THEN m1
                    ELSE [m1 EXCEPT !.metadata_cache =
                             DefaultNone(StoreRows(@, ia_db_select(ids)), ids)]

_preload_metadata_of_editions(m) ==
    IF m.raised # "" THEN m
    ELSE LET eds == SelectSeq(m.cache, LAMBDA doc :
                        IsType(doc, "/type/edition") /\ Get(doc, "ocaid", "") # "")
         IN preload_metadata(m, [i \in 1..Len(eds) |-> eds[i].ocaid])

\* for k in keys: self.redirect_cache.setdefault(k, [])
DefaultEmpty(rc, keys) ==
    [k \in DOMAIN rc \cup Range(keys) |-> IF k \in DOMAIN rc THEN rc[k] ELSE <<>>]

\* for thing in matches: self.redirect_cache[thing.location].append(thing.key)
AppendMatches(rc, matches) ==
    [k \in DOMAIN rc |->
        LET ms == SelectSeq(matches, LAMBDA thing : thing.location = k)
        IN rc[k] \o [j \in 1..Len(ms) |-> ms[j].key]]

_preload_redirects0(m, keys) ==
    IF m.raised # "" THEN m
    ELSE LET m1 == [m EXCEPT !.redirect_cache = DefaultEmpty(@, keys)]
             m2 == Call(m1, "things", keys)
         IN IF m2.raised # "" THEN m2
            ELSE [m2 EXCEPT !.redirect_cache = AppendMatches(@, things(keys))]

RECURSIVE RedirectChunks(_, _)
RedirectChunks(m, chunks) ==
    IF m.raised # "" \/ chunks = <<>> THEN m
    ELSE RedirectChunks(_preload_redirects0(m, Head(chunks)), Tail(chunks))

\* as preload_redirects, without skipping the keys already in the redirect cache
preload_redirects_unfiltered(m, keys) ==
    IF m.raised # "" THEN m
    ELSE IF keys = <<>> THEN m ELSE RedirectChunks(m, group(keys, ChunkSize))

\* as preload_redirects, looking up again the keys whose entry is empty
preload_redirects_refreshing(m, keys) ==
    IF m.raised # "" THEN m
    ELSE LET primed == {k \in DOMAIN m.redirect_cache : m.redirect_cache[k] # <<>>}
             ks == SelectSeq(keys, LAMBDA k : k \notin primed)
         IN IF ks = <<>> THEN m ELSE RedirectChunks(m, group(ks, ChunkSize))

preload_redirects(m, keys) ==
    IF m.raised # "" THEN m
    ELSE LET primed == DOMAIN m.redirect_cache
             ks == SelectSeq(keys, LAMBDA k : k \notin primed)
         IN IF ks = <<>> THEN m ELSE RedirectChunks(m, group(ks, ChunkSize))

\* the statement of preload_documents that control has reached
At(m, pass) == [m EXCEPT !.pass = pass]

\* as preload_documents, expanding works and authors once more after the
\* edition expansion
preload_documents_two_sweeps(m, keys) ==
    LET keys2 == SetOrder(SelectSeq(keys, re_key_match), m.order[1])
        m1 == preload_documents0(At(m, "preload_documents0"), keys2)
        m2 == _preload_works(At(m1, "_preload_works"))
        m3 == _preload_authors(At(m2, "_preload_authors"))
        m4 == _preload_editions(At(m3, "_preload_editions"))
        m4w == _preload_works(At(m4, "_preload_works"))
        m4a == _preload_authors(At(m4w, "_preload_authors"))
        m5 == _preload_metadata_of_editions(At(m4a, "_preload_metadata_of_editions"))
        keys3 == SelectSeq([i \in 1..Len(m5.cache) |-> m5.cache[i].key],
                           startswith_works_authors)
    IN At(preload_redirects(At(m5, "preload_redirects"), keys3), "")

\* as preload_documents, priming the redirects of the requested keys only
preload_documents_requested_redirects(m, keys) ==
    LET keys2 == SetOrder(SelectSeq(keys, re_key_match), m.order[1])
        m1 == preload_documents0(At(m, "preload_documents0"), keys2)
        m2 == _preload_works(At(m1, "_preload_works"))
        m3 == _preload_authors(At(m2, "_preload_authors"))
        m4 == _preload_editions(At(m3, "_preload_editions"))
        m5 == _preload_metadata_of_editions(At(m4, "_preload_metadata_of_editions"))
        keys3 == SelectSeq(keys2, startswith_works_authors)
    IN At(preload_redirects(At(m5, "preload_redirects"), keys3), "")

preload_documents(m, keys) ==
    LET keys2 == SetOrder(SelectSeq(keys, re_key_match), m.order[1])
        m1 == preload_documents0(At(m, "preload_documents0"), keys2)
        m2 == _preload_works(At(m1, "_preload_works"))
        m3 == _preload_authors(At(m2, "_preload_authors"))
        m4 == _preload_editions(At(m3, "_preload_editions"))
        m5 == _preload_metadata_of_editions(At(m4, "_preload_metadata_of_editions"))
        keys3 == SelectSeq([i \in 1..Len(m5.cache) |-> m5.cache[i].key],
                           startswith_works_authors)
    IN At(preload_redirects(At(m5, "preload_redirects"), keys3), "")

\* return v
Return(m, v) == IF m.raised # "" THEN m ELSE [m EXCEPT !.ret = v]

Tombstone(key) == [key |-> key, type |-> Type("/type/delete")]

\* as get_editions_of_work, loading the metadata of the cached editions too
get_editions_of_work_with_metadata(m, work) ==
    LET wkey == work.key
        m0 == preload_editions_of_works(m, <<wkey>>)
        m1 == _preload_metadata_of_editions(m0)
        edition_keys == IndexGet(m1.edition_keys_of_works_cache, wkey)
    IN IF m1.raised # "" THEN m1
       ELSE IF \E i \in DOMAIN edition_keys : edition_keys[i] \notin CacheKeys(m1.cache)
       THEN [m1 EXCEPT !.raised = "KeyError"]
       ELSE Return(m1, [i \in DOMAIN edition_keys |-> CacheGet(m1.cache, edition_keys[i])])

\* as get_document, returning self.cache[key]
get_document_strict(m, key) ==
    LET m1 == IF key \notin CacheKeys(m.cache) THEN preload_documents(m, <<key>>) ELSE m
    IN IF m1.raised # "" THEN m1
       ELSE IF key \in CacheKeys(m1.cache) THEN Return(m1, CacheGet(m1.cache, key))
       ELSE [m1 EXCEPT !.raised = "KeyError"]

\* as get_document, preloading whether or not the key is cached
get_document_always_preload(m, key) ==
    LET m1 == preload_documents(m, <<key>>)
    IN Return(m1, IF key \in CacheKeys(m1.cache)
                  THEN CacheGet(m1.cache, key)
                  ELSE Tombstone(key))

get_document(m, key) ==
    LET m1 == IF key \notin CacheKeys(m.cache) THEN preload_documents(m, <<key>>) ELSE m
    IN Return(m1, IF key \in CacheKeys(m1.cache)
                  THEN CacheGet(m1.cache, key)
                  ELSE Tombstone(key))

\* s.split(sep) of a non-empty string
RECURSIVE split(_, _)
split(s, sep) ==
    IF \A i \in DOMAIN s : s[i] # sep THEN <<s>>
    ELSE LET i == CHOOSE i \in DOMAIN s :
                     s[i] = sep /\ \A j \in 1..(i - 1) : s[j] # sep
         IN <<SubSeq(s, 1, i - 1)>> \o split(SubSeq(s, i + 1, Len(s)), sep)

\* x and x.split(";")
AndSplit(x) == IF Truthy(x) THEN List(split(x.v, ";")) ELSE x

get_metadata(m, identifier) ==
    LET m1 == preload_metadata(m, <<identifier>>)
        row == Get(m1.metadata_cache, identifier, PyNone)
    IN Return(m1, IF row # PyNone
                  THEN [row EXCEPT !.publisher = AndSplit(@),
                                   !.collection = AndSplit(@),
                                   !.isbn = AndSplit(@),
                                   !.creator = AndSplit(@)]
                  ELSE PyNone)

find_redirects(m, key) ==
    LET m1 == preload_redirects(m, <<key>>)
    IN Return(m1, IF m1.raised = "" THEN m1.redirect_cache[key] ELSE <<>>)

get_editions_of_work(m, work) ==
    LET wkey == work.key
        m1 == preload_editions_of_works(m, <<wkey>>)
        edition_keys == IndexGet(m1.edition_keys_of_works_cache, wkey)
    IN IF m1.raised # "" THEN m1
       ELSE IF \E i \in DOMAIN edition_keys : edition_keys[i] \notin CacheKeys(m1.cache)
       THEN [m1 EXCEPT !.raised = "KeyError"]
       ELSE Return(m1, [i \in DOMAIN edition_keys |-> CacheGet(m1.cache, edition_keys[i])])

\* as clear_cache, leaving the metadata cache as it is
clear_cache_keeps_metadata(m) ==
    [m EXCEPT !.cache = <<>>,
              !.redirect_cache = <<>>,
              !.edition_keys_of_works_cache = <<>>]

clear_cache(m) ==
    [m EXCEPT !.cache = <<>>,
              !.metadata_cache = <<>>,
              !.redirect_cache = <<>>,
              !.edition_keys_of_works_cache = <<>>]

(***************************************************************************)
(* The state machine: one action per public method, each a whole call.     *)
(***************************************************************************)
\* the provider as a method finds it; backing call number failAt will fail
Machine(failAt) ==
    [cache |-> cache,
     metadata_cache |-> metadata_cache,
     redirect_cache |-> redirect_cache,
     edition_keys_of_works_cache |-> edition_keys_of_works_cache,
     ia_db |-> ia_db,
     order |-> <<0, 0>>,
     calls |-> <<>>,
     pass |-> "",
     raised |-> "",
     failAt |-> failAt,
     ret |-> PyNone]

\* work keys of the join queries of a call log that completed
JoinedIn(calls) ==
    UNION {Range(calls[i].keys) :
             i \in {j \in DOMAIN calls : calls[j].kind = "query" /\ calls[j].ok}}

\* the method has returned or raised, leaving the provider as in m
Finish(op, arg, m) ==
    /\ cache' = m.cache
    /\ metadata_cache' = m.metadata_cache
    /\ redirect_cache' = m.redirect_cache
    /\ edition_keys_of_works_cache' = m.edition_keys_of_works_cache
    /\ joined' = joined \cup JoinedIn(m.calls)
    /\ failed' = (failed \/ \E i \in DOMAIN m.calls : ~m.calls[i].ok)
    /\ ops' = ops + 1
    /\ last' = [op |-> op, arg |-> arg, ret |-> m.ret, raised |-> m.raised,
                calls |-> m.calls]
    /\ UNCHANGED ia_db

\* the first work of an edition record: doc['works'][0]['key']
FirstWork(doc) == doc.works[1].key

\* the first works of the editions among docs
FirstWorksOf(docs) ==
    {FirstWork(d) : d \in {e \in docs : /\ IsType(e, "/type/edition")
                                         /\ Get(e, "works", <<>>) # <<>>}}

\* the authors that the works and editions among docs name
AuthorsOf(docs) == UNION {Range(AuthorKeysOf(d)) : d \in docs}

\* the orders in which the two sets of preload_documents(keys) may be iterated
\* on a provider whose document cache is c: every arrangement of the
\* requested keys that match the pattern (keys2), with every arrangement of
\* the author keys named by the documents that are cached when the author
\* expansion begins
SetOrdersOn(c, keys) ==
    LET wanted == {k \in Range(keys) : re_key_match(k)}
        docs0 == Range(c) \cup {Thing(k) : k \in wanted \cap StoreKeys}
        docs1 == docs0 \cup {Thing(w) : w \in FirstWorksOf(docs0) \cap StoreKeys}
    IN (0..(Factorial(Cardinality(wanted)) - 1))
       \X (0..(Factorial(Cardinality(AuthorsOf(docs1))) - 1))

SetOrders(keys) == SetOrdersOn(cache, keys)

\* the provider as a method finds it, its sets iterated as order says
MachineInOrder(failAt, order) == [Machine(failAt) EXCEPT !.order = order]

\* a backing call fails at position 1..MaxFail of the operation, or (0) none does
FailPoints == 0..MaxFail

\* arguments of the calls of a session on the small records
DocumentRequests ==
    { <<>>, <<Book(1)>>, <<Book(2)>>, <<Work(3)>>, <<Work(4)>>,
      <<MissingBook, Book(3)>>, <<SubjectKey, IaKey>>, <<IaKey, Book(3)>>,
      <<TitleKey>> }

DocumentKeys == {Book(1), Book(2), MissingBook, IaKey, TitleKey}

\* arguments of direct calls of preload_documents0
FetchRequests == { <<Book(2)>>, <<Book(1), MissingBook>> }

MetadataRequests == { <<"item1">>, <<"item2", "item1">>, <<"item9">> }

Identifiers == {"item1", "item2", "item9"}

WorkRequests == { <<Work(1)>>, <<Work(3)>>, <<Work(3), Work(2)>> }

WorkKeys == {Work(1), Work(3)}

RedirectRequests == { <<Work(1)>>, <<Author(1), Work(1)>>, <<Work(3), IaKey>> }

RedirectKeys == {Work(1), Author(1), MissingBook}

\* a list longer than a chunk that names Work(1) in its first and in its second chunk
LongRedirectRequest == <<Work(1)>> \o SubSeq(BulkEditions, 1, ChunkSize - 1) \o <<Work(1)>>

\* arguments of the calls of a session on the big work
BulkDocumentRequests == { <<>>, <<BulkWork>> }

BulkFetches == { <<>>, BulkEditions, SubSeq(BulkEditions, 1, ChunkSize) }

BulkDocumentKeys == {BulkEdition(BulkN)}

BulkRedirectRequests == { LongRedirectRequest }

Init ==
    /\ cache = <<>>
    /\ metadata_cache = <<>>
    /\ redirect_cache = <<>>
    /\ edition_keys_of_works_cache = <<>>
    /\ ia_db \in BOOLEAN
    /\ joined = {}
    /\ failed = FALSE
    /\ ops = 0
    /\ last = [op |-> "__init__", arg |-> <<>>, ret |-> PyNone, raised |-> "",
               calls |-> <<>>]

PreloadDocuments(keys, failAt, order) ==
    /\ ops < MaxOps
    /\ Finish("preload_documents", keys,
              preload_documents(MachineInOrder(failAt, order), keys))

PreloadMetadata(identifiers, failAt) ==
    /\ ops < MaxOps
    /\ Finish("preload_metadata", identifiers,
              preload_metadata(Machine(failAt), identifiers))

PreloadEditionsOfWorks(work_keys, failAt) ==
    /\ ops < MaxOps
    /\ Finish("preload_editions_of_works", work_keys,
              preload_editions_of_works(Machine(failAt), work_keys))

PreloadRedirects(keys, failAt) ==
    /\ ops < MaxOps
    /\ Finish("preload_redirects", keys, preload_redirects(Machine(failAt), keys))

GetDocument(key, failAt, order) ==
    /\ ops < MaxOps
    /\ Finish("get_document", key, get_document(MachineInOrder(failAt, order), key))

GetMetadata(identifier, failAt) ==
    /\ ops < MaxOps
    /\ Finish("get_metadata", identifier, get_metadata(Machine(failAt), identifier))

FindRedirects(key, failAt) ==
    /\ ops < MaxOps
    /\ Finish("find_redirects", key, find_redirects(Machine(failAt), key))

GetEditionsOfWork(wkey, failAt) ==
    /\ ops < MaxOps
    /\ Finish("get_editions_of_work", wkey,
              get_editions_of_work(Machine(failAt), [key |-> wkey]))

ClearCache ==
    LET m == clear_cache(Machine(0))
    IN /\ cache' = m.cache
       /\ metadata_cache' = m.metadata_cache
       /\ redirect_cache' = m.redirect_cache
       /\ edition_keys_of_works_cache' = m.edition_keys_of_works_cache
       /\ joined' = {}
       /\ failed' = FALSE
       /\ ops' = 0
       /\ last' = [op |-> "clear_cache", arg |-> <<>>, ret |-> PyNone, raised |-> "",
                   calls |-> <<>>]
       /\ UNCHANGED ia_db

PreloadDocuments0(keys, failAt) ==
    /\ ops < MaxOps
    /\ Finish("preload_documents0", keys, preload_documents0(Machine(failAt), keys))

Next ==
    \/ \E keys \in DocumentRequests, f \in FailPoints :
          \E order \in SetOrders(keys) : PreloadDocuments(keys, f, order)
    \/ \E keys \in FetchRequests, f \in FailPoints : PreloadDocuments0(keys, f)
    \/ \E ids \in MetadataRequests, f \in FailPoints : PreloadMetadata(ids, f)
    \/ \E wks \in WorkRequests, f \in FailPoints : PreloadEditionsOfWorks(wks, f)
    \/ \E keys \in RedirectRequests, f \in FailPoints : PreloadRedirects(keys, f)
    \/ \E key \in DocumentKeys, f \in FailPoints :
          \E order \in SetOrders(<<key>>) : GetDocument(key, f, order)
    \/ \E id \in Identifiers, f \in FailPoints : GetMetadata(id, f)
    \/ \E key \in RedirectKeys, f \in FailPoints : FindRedirects(key, f)
    \/ \E wkey \in WorkKeys, f \in FailPoints : GetEditionsOfWork(wkey, f)
    \/ ClearCache

\* sessions on the small records
Spec == Init /\ [][Next]_vars

NextBulk ==
    \/ \E keys \in BulkDocumentRequests, f \in FailPoints :
          \E order \in SetOrders(keys) : PreloadDocuments(keys, f, order)
    \/ \E keys \in BulkFetches, f \in FailPoints : PreloadDocuments0(keys, f)
    \/ \E f \in FailPoints : PreloadEditionsOfWorks(<<BulkWork>>, f)
    \/ \E keys \in BulkRedirectRequests, f \in FailPoints : PreloadRedirects(keys, f)
    \/ \E key \in BulkDocumentKeys, f \in FailPoints :
          \E order \in SetOrders(<<key>>) : GetDocument(key, f, order)
    \/ \E f \in FailPoints : FindRedirects(Work(1), f)
    \/ \E f \in FailPoints : GetEditionsOfWork(BulkWork, f)
    \/ ClearCache

\* sessions on the big work, whose fetches take more than one chunk
SpecBulk == Init /\ [][NextBulk]_vars

(***************************************************************************)
(* Properties.                                                             *)
(***************************************************************************)
\* every backing call of the last operation completed
NoBackingFailure == \A i \in DOMAIN last.calls : last.calls[i].ok

\* the key lists of the backing calls of one kind in a call log
KeysSent(calls, kind) ==
    UNION {Range(calls[i].keys) : i \in {j \in DOMAIN calls : calls[j].kind = kind}}

\* the authors an edition record names: a['key'] for a in doc['authors']
EditionAuthors(doc) ==
    LET as == Get(doc, "authors", <<>>) IN {as[i].key : i \in DOMAIN as}

\* the edition E of the store names work W first, names author A and has ocaid I
EndToEndCase(E, W, A, I) ==
    /\ E \in StoreKeys /\ W \in StoreKeys /\ A \in StoreKeys
    /\ re_key_match(E)
    /\ IsType(Thing(E), "/type/edition")
    /\ IsType(Thing(W), "/type/work")
    /\ Get(Thing(E), "works", <<>>) # <<>>
    /\ FirstWork(Thing(E)) = W
    /\ A \in EditionAuthors(Thing(E))
    /\ Get(Thing(E), "ocaid", "") = I
    /\ I # ""
    /\ \E i \in DOMAIN AllRows : AllRows[i] = [edition_key |-> E, work_key |-> W]

\* C1: from four empty caches, with the metadata database configured and no
\* failing backing call, preload_documents({E}) for an edition E whose first
\* work is W, which names author A and has ocaid I, and for which the join
\* returns (E, W), leaves E, W and A in the document cache, an entry for I in
\* the metadata cache, E in the edition index of W, and redirect entries for W
\* and A.
EndToEndScenario ==
    ( /\ last.op = "preload_documents"
      /\ ops = 1
      /\ ia_db
      /\ last.raised = ""
      /\ NoBackingFailure )
    => \A E \in Range(last.arg) \cap StoreKeys :
         (Range(last.arg) = {E} /\ Get(Thing(E), "works", <<>>) # <<>>)
         => \A W \in {FirstWork(Thing(E))},
               A \in EditionAuthors(Thing(E)),
               I \in {Get(Thing(E), "ocaid", "")} :
              EndToEndCase(E, W, A, I)
              => /\ {E, W, A} \subseteq CacheKeys(cache)
                 /\ I \in DOMAIN metadata_cache
                 /\ metadata_cache[I] \in Range(MetadataRows) \cup {PyNone}
                 /\ E \in Range(IndexGet(edition_keys_of_works_cache, W))
                 /\ {W, A} \subseteq DOMAIN redirect_cache

\* preload_documents({/books/OL1M}) has returned in a session that began with
\* empty caches
EndToEndReached ==
    /\ last.op = "preload_documents"
    /\ ops = 1
    /\ last.arg = <<Book(1)>>
    /\ ia_db
    /\ last.raised = ""
    /\ NoBackingFailure
    /\ EndToEndCase(Book(1), Work(1), Author(1), "item1")

\* a further call on the provider as the call m left it, no backing call failing
Again(m) == [m EXCEPT !.calls = <<>>, !.ret = PyNone, !.failAt = 0]

\* as Again, the sets of the further call iterated as order says
AgainInOrder(m, order) == [Again(m) EXCEPT !.order = order]

\* the four caches of a and of b are equal as dicts
SameCaches(a, b) ==
    /\ Range(a.cache) = Range(b.cache)
    /\ a.metadata_cache = b.metadata_cache
    /\ a.redirect_cache = b.redirect_cache
    /\ Range(a.edition_keys_of_works_cache) = Range(b.edition_keys_of_works_cache)

\* every entry of the four caches of a is an entry of the caches of b, unchanged
CachesKept(a, b) ==
    /\ Range(a.cache) \subseteq Range(b.cache)
    /\ \A id \in DOMAIN a.metadata_cache :
          id \in DOMAIN b.metadata_cache /\ b.metadata_cache[id] = a.metadata_cache[id]
    /\ \A k \in DOMAIN a.redirect_cache :
          k \in DOMAIN b.redirect_cache /\ b.redirect_cache[k] = a.redirect_cache[k]
    /\ Range(a.edition_keys_of_works_cache) \subseteq Range(b.edition_keys_of_works_cache)

IdempotentPreloadDocuments ==
    \A keys \in DocumentRequests :
        \A o1 \in SetOrders(keys) :
            LET once == preload_documents(MachineInOrder(0, o1), keys)
            IN \A o2 \in SetOrdersOn(once.cache, keys) :
                  SameCaches(preload_documents(AgainInOrder(once, o2), keys), once)

IdempotentPreloadMetadata ==
    \A ids \in MetadataRequests :
        LET once == preload_metadata(Machine(0), ids)
        IN SameCaches(preload_metadata(Again(once), ids), once)

IdempotentPreloadEditionsOfWorks ==
    \A wks \in WorkRequests :
        LET once == preload_editions_of_works(Machine(0), wks)
        IN SameCaches(preload_editions_of_works(Again(once), wks), once)

\* C2 as stated: in every reachable state, each of preload_documents,
\* preload_metadata and preload_editions_of_works, called twice with the same
\* keys and no failing backing call, leaves the four caches as one call does.
IdempotenceOfPreloads ==
    /\ IdempotentPreloadDocuments
    /\ IdempotentPreloadMetadata
    /\ IdempotentPreloadEditionsOfWorks

\* the four caches as they are
Held ==
    [cache |-> cache,
     metadata_cache |-> metadata_cache,
     redirect_cache |-> redirect_cache,
     edition_keys_of_works_cache |-> edition_keys_of_works_cache]

\* a preload_documents call that follows a preload_documents call with the
\* same keys, no backing call failing in either, keeps every entry of the
\* four caches as the first call left it
SecondPreloadDocumentsKeeps ==
    ( /\ last.op = "preload_documents"
      /\ last'.op = "preload_documents"
      /\ last'.arg = last.arg
      /\ \A i \in DOMAIN last.calls : last.calls[i].ok
      /\ \A i \in DOMAIN last'.calls : last'.calls[i].ok )
    => CachesKept(Held, Held')

\* C2 as amended: in every reachable state preload_metadata and
\* preload_editions_of_works called twice leave the four caches as one call
\* does; a second preload_documents keeps every entry the first call left,
\* unchanged, and may add entries.
IdempotenceOfSingleRelationPreloads ==
    /\ [](IdempotentPreloadMetadata /\ IdempotentPreloadEditionsOfWorks)
    /\ [][SecondPreloadDocumentsKeeps]_vars

\* a second preload_documents of the same edition has found the edition, its
\* work and the index of the work and has fetched the work of an edition
\* that the edition expansion of the first call had cached
SecondPreloadReached ==
    /\ ops = 2
    /\ ~failed
    /\ last.op = "preload_documents"
    /\ last.arg = <<Book(1)>>
    /\ last.raised = ""
    /\ Work(1) \in joined
    /\ {Book(1), Work(1)} \cap KeysSent(last.calls, "get_many") = {}
    /\ Work(1) \notin KeysSent(last.calls, "query")
    /\ Work(2) \in KeysSent(last.calls, "get_many")
    /\ Work(2) \in CacheKeys(cache)
    /\ IdempotentPreloadMetadata
    /\ IdempotentPreloadEditionsOfWorks

\* C3: when no backing call fails, get_document(key) raises nothing and
\* returns the cached record of the key if the document cache has one after
\* the implicit preload, and otherwise the tombstone {key, type /type/delete}.
GetDocumentNeverFails ==
    (last.op = "get_document" /\ NoBackingFailure)
    => /\ last.raised = ""
       /\ last.arg \in CacheKeys(cache) => last.ret = CacheGet(cache, last.arg)
       /\ last.arg \notin CacheKeys(cache) =>
             /\ last.ret.key = last.arg
             /\ last.ret.type.key = "/type/delete"
             /\ DOMAIN last.ret = {"key", "type"}

\* get_document has looked for a key that the store does not have and has
\* returned its tombstone
TombstoneReached ==
    /\ last.op = "get_document"
    /\ NoBackingFailure
    /\ last.arg = MissingBook
    /\ last.calls # <<>>
    /\ last.ret = Tombstone(MissingBook)

\* C4: no get_many call is sent a key that is in the document cache when the
\* call is issued.
NoRefetchOfCachedDocument ==
    \A i \in DOMAIN last.calls :
        last.calls[i].kind = "get_many" => last.calls[i].cached = {}

\* C5: every edition key of every edition-index entry is a key of the
\* document cache, and get_editions_of_work meets no lookup failure.
EditionIndexResolvable ==
    /\ \A i \in DOMAIN edition_keys_of_works_cache :
          Range(edition_keys_of_works_cache[i].edition_keys) \subseteq CacheKeys(cache)
    /\ last.op = "get_editions_of_work" => last.raised # "KeyError"

\* the last call found nothing to clear away: no clear_cache
SessionGoesOn == last'.op # "clear_cache"

\* C6: find_redirects(K) that returns leaves an entry for K in the redirect
\* cache and returns it, the empty sequence when no record redirects to K;
\* and until clear_cache an entry stays as it is, and find_redirects of a key
\* that has an entry issues no backing call and returns that entry.
RedirectCompleteness ==
    [][ /\ (last'.op = "find_redirects" /\ last'.raised = "")
           => /\ last'.arg \in DOMAIN redirect_cache'
              /\ last'.ret = redirect_cache'[last'.arg]
              /\ (\A d \in Range(RedirectDocs) : d.location # last'.arg)
                    => last'.ret = <<>>
        /\ SessionGoesOn
           => \A K \in DOMAIN redirect_cache :
                /\ K \in DOMAIN redirect_cache'
                /\ redirect_cache'[K] = redirect_cache[K]
                /\ (last'.op = "find_redirects" /\ last'.arg = K)
                      => /\ last'.calls = <<>>
                         /\ last'.raised = ""
                         /\ last'.ret = redirect_cache[K]
      ]_vars

\* a second find_redirects of a key to which nothing redirects has returned
\* the empty sequence without a backing call
RedirectSecondCallReached ==
    /\ ops = 2
    /\ last.op = "find_redirects"
    /\ last.arg = MissingBook
    /\ last.calls = <<>>
    /\ last.raised = ""
    /\ last.ret = <<>>
    /\ MissingBook \in DOMAIN redirect_cache

\* the identifiers a call was asked for
RequestedIdentifiers(l) ==
    IF l.op = "preload_metadata" THEN Range(l.arg)
    ELSE IF l.op = "get_metadata" THEN {l.arg}
    ELSE {}

\* what the metadata table holds for an identifier: its row, or nothing
RowOrNone(id) ==
    IF \E i \in DOMAIN MetadataRows : MetadataRows[i].identifier = id
    THEN MetadataRows[CHOOSE i \in DOMAIN MetadataRows : MetadataRows[i].identifier = id]
    ELSE PyNone

\* C7: with the metadata database configured, a preload_metadata or
\* get_metadata that does not fail leaves every requested identifier with an
\* entry, the returned row or None; until clear_cache an entry stays and no
\* select names its identifier; get_metadata of an identifier marked None
\* returns None and raises nothing.
MetadataNegativeCaching ==
    [][ /\ (ia_db /\ last'.raised = "")
           => \A id \in RequestedIdentifiers(last') :
                /\ id \in DOMAIN metadata_cache'
                /\ metadata_cache'[id] = RowOrNone(id)
        /\ SessionGoesOn
           => \A id \in DOMAIN metadata_cache :
                /\ id \in DOMAIN metadata_cache'
                /\ metadata_cache'[id] = metadata_cache[id]
                /\ id \notin KeysSent(last'.calls, "select")
                /\ (last'.op = "get_metadata" /\ last'.arg = id
                    /\ metadata_cache[id] = PyNone)
                      => last'.raised = "" /\ last'.ret = PyNone
      ]_vars

\* get_metadata of an identifier already marked None has returned None without
\* a backing call
MetadataAbsentReached ==
    /\ ia_db
    /\ ops = 2
    /\ last.op = "get_metadata"
    /\ last.arg = "item9"
    /\ last.calls = <<>>
    /\ last.ret = PyNone
    /\ "item9" \in DOMAIN metadata_cache
    /\ metadata_cache["item9"] = PyNone

\* C8 as stated: until clear_cache, no join query names a work key that a
\* completed join query has named before.
JoinNeverRepeated ==
    [][ SessionGoesOn => KeysSent(last'.calls, "query") \cap joined = {} ]_vars

\* C8 as amended: until clear_cache, no join query names a work key that has
\* an entry in the edition index (a completed join returned an edition for
\* it); get_editions_of_work of such a work issues no join query.
JoinSkipsIndexedWorks ==
    [][ SessionGoesOn
        => /\ KeysSent(last'.calls, "query")
                \cap IndexKeys(edition_keys_of_works_cache) = {}
           /\ (last'.op = "get_editions_of_work"
               /\ last'.arg \in IndexKeys(edition_keys_of_works_cache))
                 => \A i \in DOMAIN last'.calls : last'.calls[i].kind # "query"
      ]_vars

\* a second get_editions_of_work of an indexed work has returned its editions
\* without a join query
IndexedWorkSkippedReached ==
    /\ ops = 2
    /\ last.op = "get_editions_of_work"
    /\ last.arg = Work(1)
    /\ Work(1) \in joined
    /\ last.calls = <<>>
    /\ last.raised = ""
    /\ Len(last.ret) = 2

\* C9: until clear_cache no cache loses entries: the number of entries of each
\* of the four caches never decreases; clear_cache leaves all four empty.
CachesGrowUntilCleared ==
    [][ /\ SessionGoesOn
           => /\ Len(cache') >= Len(cache)
              /\ Cardinality(DOMAIN metadata_cache') >= Cardinality(DOMAIN metadata_cache)
              /\ Cardinality(DOMAIN redirect_cache') >= Cardinality(DOMAIN redirect_cache)
              /\ Len(edition_keys_of_works_cache') >= Len(edition_keys_of_works_cache)
        /\ last'.op = "clear_cache"
           => /\ Len(cache') = 0
              /\ DOMAIN metadata_cache' = {}
              /\ DOMAIN redirect_cache' = {}
              /\ Len(edition_keys_of_works_cache') = 0
      ]_vars

\* a call has failed on a provider whose four caches all hold entries
FailureOnFullCachesReached ==
    /\ ops = 2
    /\ last.raised = "BackingError"
    /\ Len(cache) > 0
    /\ DOMAIN metadata_cache # {}
    /\ DOMAIN redirect_cache # {}
    /\ Len(edition_keys_of_works_cache) > 0

\* C10: get_document of a key that is in the document cache issues no backing
\* call and changes none of the four caches; and a preload_documents that
\* does not fail leaves in the document cache every requested key that
\* matches the key pattern and is in the store.
PreloadedReadsAreWarm ==
    [][ /\ (last'.op = "get_document" /\ last'.arg \in CacheKeys(cache))
           => /\ last'.calls = <<>>
              /\ last'.raised = ""
              /\ UNCHANGED caches
        /\ (last'.op = "preload_documents" /\ last'.raised = "")
           => \A k \in Range(last'.arg) :
                (re_key_match(k) /\ k \in StoreKeys) => k \in CacheKeys(cache')
      ]_vars

\* get_document of a key that preload_documents had been asked for has
\* returned the record without a backing call
WarmReadReached ==
    /\ ops = 2
    /\ last.op = "get_document"
    /\ last.arg = Book(1)
    /\ last.calls = <<>>
    /\ last.ret = Thing(Book(1))
    /\ Len(redirect_cache[Author(1)]) = 2

\* every backing call of a call log completed
AllOk(calls) == \A i \in DOMAIN calls : calls[i].ok

\* the least number of chunks of size c that hold n keys
CeilDiv(n, c) == (n + c - 1) \div c

\* the key lists of the calls of a call log, one after the other
AllKeysSent(calls) == Concat([i \in 1..Len(calls) |-> calls[i].keys])

\* C11: a document fetch given N distinct keys, none of them in the document
\* cache, with no failing call, issues exactly ceil(N / 100) backing calls,
\* all get_many, each with 1 to 100 keys; the key lists of the calls, one
\* after the other, are the given list, so that every given key is sent in
\* exactly one call and nothing else is sent; the document cache it leaves
\* holds the entries it had and the records that a single get_many of all N
\* keys returns, as one unchunked call leaves it; for N = 0 there is no call.
BatchingCorrectness ==
    [][ ( /\ last'.op = "preload_documents0"
          /\ AllOk(last'.calls)
          /\ Cardinality(Range(last'.arg)) = Len(last'.arg)
          /\ Range(last'.arg) \cap CacheKeys(cache) = {} )
        => LET calls == last'.calls
               N == Len(last'.arg)
           IN /\ last'.raised = ""
              /\ Len(calls) = CeilDiv(N, ChunkSize)
              /\ N = 0 => calls = <<>>
              /\ \A i \in DOMAIN calls :
                    /\ calls[i].kind = "get_many"
                    /\ Len(calls[i].keys) >= 1
                    /\ Len(calls[i].keys) <= ChunkSize
              /\ AllKeysSent(calls) = last'.arg
              /\ Range(cache') = Range(cache) \cup Range(get_many(last'.arg))
      ]_vars

\* a fetch of more keys than one chunk holds has completed in two calls
BatchedFetchReached ==
    /\ last.op = "preload_documents0"
    /\ ops = 1
    /\ Len(last.arg) > ChunkSize
    /\ Len(last.calls) = 2
    /\ NoBackingFailure
    /\ Len(last.calls[1].keys) = ChunkSize
    /\ Len(cache) = Len(last.arg)

\* the four caches are empty
NothingCached ==
    /\ cache = <<>>
    /\ DOMAIN metadata_cache = {}
    /\ DOMAIN redirect_cache = {}
    /\ edition_keys_of_works_cache = <<>>

\* the whole of k has the shape of a work, edition or author key
MatchesKeyPattern(k) == re_key_match(k) /\ k[5] = ""

\* C12: preload_documents raises nothing but the failure of a backing call it
\* made, whatever the shape of the requested keys; the get_many calls of its
\* requested-key fetch name only requested keys that match the key pattern;
\* and when no requested key matches and the four caches are empty, it makes
\* no backing call and leaves the four caches empty.
MalformedKeysDropped ==
    [][ last'.op = "preload_documents"
        => /\ last'.raised \in {"", "BackingError"}
           /\ last'.raised = "BackingError" <=> ~AllOk(last'.calls)
           /\ \A i \in DOMAIN last'.calls :
                 last'.calls[i].pass = "preload_documents0"
                 => /\ last'.calls[i].kind = "get_many"
                    /\ \A k \in Range(last'.calls[i].keys) :
                          k \in Range(last'.arg) /\ MatchesKeyPattern(k)
           /\ ((\A k \in Range(last'.arg) : ~MatchesKeyPattern(k)) /\ NothingCached)
                 => /\ last'.calls = <<>>
                    /\ last'.raised = ""
                    /\ NothingCached'
      ]_vars

\* the fields of a metadata row that get_metadata splits
SplitFields == {"publisher", "collection", "isbn", "creator"}

\* the sequence that a stored field value stands for: its text split at ";",
\* the empty sequence for the empty string and for an absent value
Decoded(x) == IF Truthy(x) THEN List(split(x.v, ";")) ELSE List(<<>>)

\* C13: get_metadata of an identifier whose row is cached returns each of
\* publisher, collection, isbn and creator as the sequence of the parts of the
\* stored text between the ";", the empty sequence when the stored value is
\* the empty string or absent; the read leaves the cached row as it was, and
\* a further get_metadata returns the same.
MetadataSplitInvariant ==
    [][ ( /\ last'.op = "get_metadata"
          /\ last'.raised = ""
          /\ last'.arg \in DOMAIN metadata_cache'
          /\ metadata_cache'[last'.arg] # PyNone )
        => LET row == metadata_cache'[last'.arg]
           IN /\ \A f \in SplitFields : last'.ret[f] = Decoded(row[f])
              /\ last'.ret.identifier = row.identifier
              /\ row \in Range(MetadataRows)
              /\ last'.arg \in DOMAIN metadata_cache
                    => metadata_cache' = metadata_cache
              /\ get_metadata([Machine(0) EXCEPT !.metadata_cache = metadata_cache'],
                              last'.arg).ret = last'.ret
      ]_vars

\* the steps of preload_documents in the order of its statements
PassOrder ==
    << "preload_documents0", "_preload_works", "_preload_authors",
       "_preload_editions", "_preload_metadata_of_editions", "preload_redirects" >>

Rank(pass) == CHOOSE i \in DOMAIN PassOrder : PassOrder[i] = pass

\* the backing calls a step may make
KindsOf(pass) ==
    IF pass = "_preload_editions" THEN {"query", "get_many"}
    ELSE IF pass = "_preload_metadata_of_editions" THEN {"select"}
    ELSE IF pass = "preload_redirects" THEN {"things"}
    ELSE {"get_many"}

\* the documents in the cache when the step `pass` of the call logged in
\* calls began: those cached before the call and those the earlier steps got
CachedBefore(calls, pass) ==
    Range(cache) \cup
    {Thing(k) : k \in StoreKeys \cap
        UNION {Range(calls[i].keys) :
                 i \in {j \in DOMAIN calls : /\ calls[j].kind = "get_many"
                                              /\ Rank(calls[j].pass) < Rank(pass)}}}

\* C14: the backing calls of a preload_documents call (made directly or by a
\* get_document miss) come in the order requested-key fetch, work expansion,
\* author expansion, edition expansion, metadata expansion, redirect priming,
\* no step resuming after a later one has begun; each step makes only its
\* own kind of call, with one join query, before the edition fetch, and one
\* metadata select at most; the call returns when no backing call fails;
\* work expansion and author expansion fetch only keys named by documents
\* cached before they began, hence by none that edition expansion inserts,
\* and they leave every such key that the store has in the document cache.
FixedOrderSingleSweep ==
    [][ last'.op \in {"preload_documents", "get_document"}
        => LET calls == last'.calls
               editions == {i \in DOMAIN calls : calls[i].pass = "_preload_editions"}
           IN /\ \A i \in DOMAIN calls :
                    /\ calls[i].pass \in Range(PassOrder)
                    /\ calls[i].kind \in KindsOf(calls[i].pass)
              /\ \A i, j \in DOMAIN calls :
                    i < j => Rank(calls[i].pass) <= Rank(calls[j].pass)
              /\ \A i \in editions :
                    calls[i].kind = "query" <=> \A j \in editions : i <= j
              /\ Cardinality({i \in DOMAIN calls : calls[i].kind = "select"}) <= 1
              /\ AllOk(calls) => last'.raised = ""
              /\ \A i \in DOMAIN calls :
                    /\ calls[i].pass = "_preload_works"
                          => Range(calls[i].keys)
                                \subseteq FirstWorksOf(CachedBefore(calls, "_preload_works"))
                    /\ calls[i].pass = "_preload_authors"
                          => Range(calls[i].keys)
                                \subseteq AuthorsOf(CachedBefore(calls, "_preload_authors"))
              /\ (last'.op = "preload_documents" /\ last'.raised = "")
                    => /\ FirstWorksOf(CachedBefore(calls, "_preload_works")) \cap StoreKeys
                             \subseteq CacheKeys(cache')
                       /\ AuthorsOf(CachedBefore(calls, "_preload_authors")) \cap StoreKeys
                             \subseteq CacheKeys(cache')
      ]_vars

\* a preload_documents call has gone through all six steps and has returned
\* leaving an edition that edition expansion inserted and whose first work
\* and author are not cached
SingleSweepReached ==
    /\ last.op = "preload_documents"
    /\ ops = 1
    /\ last.raised = ""
    /\ NoBackingFailure
    /\ {last.calls[i].pass : i \in DOMAIN last.calls} = Range(PassOrder)
    /\ \E i \in DOMAIN last.calls :
          /\ last.calls[i].pass = "_preload_editions"
          /\ last.calls[i].kind = "get_many"
          /\ \E k \in Range(last.calls[i].keys) \cap CacheKeys(cache) :
                /\ FirstWorksOf({CacheGet(cache, k)}) # {}
                /\ FirstWorksOf({CacheGet(cache, k)}) \cap CacheKeys(cache) = {}
                /\ AuthorsOf({CacheGet(cache, k)}) # {}
                /\ AuthorsOf({CacheGet(cache, k)}) \cap CacheKeys(cache) = {}

\* C15: when preload_documents has returned, every key of the document cache
\* that begins as a work or author key has an entry in the redirect cache,
\* and, with the metadata database configured, the ocaid of every cached
\* edition that has one has an entry in the metadata cache, whichever
\* operation cached the document.
FinalPassesCoverCache ==
    (last.op = "preload_documents" /\ last.raised = "")
    => /\ \A k \in CacheKeys(cache) :
             startswith_works_authors(k) => k \in DOMAIN redirect_cache
       /\ ia_db
             => \A d \in Range(cache) :
                   (IsType(d, "/type/edition") /\ Get(d, "ocaid", "") # "")
                   => d.ocaid \in DOMAIN metadata_cache

\* preload_documents of no key has returned on a cache that an earlier
\* operation filled, having got the works of the cached editions, the
\* metadata of the editions and the redirects of the works
WholeCacheCoveredReached ==
    /\ ops = 2
    /\ ia_db
    /\ last.op = "preload_documents"
    /\ last.arg = <<>>
    /\ last.raised = ""
    /\ \E i \in DOMAIN last.calls : last.calls[i].kind = "select"
    /\ \E i \in DOMAIN last.calls :
          last.calls[i].kind = "things" /\ Work(2) \in Range(last.calls[i].keys)
    /\ {"item1", "item2"} \subseteq DOMAIN metadata_cache
    /\ {Work(1), Work(2)} \subseteq DOMAIN redirect_cache

\* C16: when a get_many call of an operation fails, the operation raises that
\* failure and the failed call is the last one it makes: no retry and no call
\* for a later chunk; the records that the get_many calls before it returned
\* are in the document cache; and every entry that any of the four caches
\* held before the operation is still there, unchanged.
ChunkFailure ==
    [][ \A i \in DOMAIN last'.calls :
          (last'.calls[i].kind = "get_many" /\ ~last'.calls[i].ok)
          => /\ last'.raised = "BackingError"
             /\ i = Len(last'.calls)
             /\ \A j \in 1..(i - 1) :
                   /\ last'.calls[j].ok
                   /\ last'.calls[j].kind = "get_many"
                         => Range(get_many(last'.calls[j].keys)) \subseteq Range(cache')
             /\ Range(cache) \subseteq Range(cache')
             /\ \A id \in DOMAIN metadata_cache :
                   id \in DOMAIN metadata_cache' /\ metadata_cache'[id] = metadata_cache[id]
             /\ \A k \in DOMAIN redirect_cache :
                   k \in DOMAIN redirect_cache' /\ redirect_cache'[k] = redirect_cache[k]
             /\ Range(edition_keys_of_works_cache)
                   \subseteq Range(edition_keys_of_works_cache')
      ]_vars

\* the second chunk of a fetch has failed and the records of the first chunk
\* are in the document cache
ChunkFailureReached ==
    /\ last.op = "preload_documents0"
    /\ ops = 1
    /\ last.raised = "BackingError"
    /\ Len(last.calls) = 2
    /\ last.calls[1].ok
    /\ ~last.calls[2].ok
    /\ Len(last.calls[1].keys) = ChunkSize
    /\ Len(last.calls[2].keys) >= 1
    /\ CacheKeys(cache) = Range(last.calls[1].keys)

\* the keys whose reverse-redirect lookup completed in a call log
LookedUp(calls) ==
    UNION {Range(calls[i].keys) :
             i \in {j \in DOMAIN calls : calls[j].kind = "things" /\ calls[j].ok}}

\* C17: when a reverse-redirect lookup of an operation fails, the operation
\* raises the failure, and the redirect cache has no entry for a key of the
\* failed lookup unless it had one before the operation or a lookup of the
\* key completed in it; so that find_redirects of such a key does not answer
\* from the cache.
RedirectEntryMeansLookupCompleted ==
    [][ \A i \in DOMAIN last'.calls :
          (last'.calls[i].kind = "things" /\ ~last'.calls[i].ok)
          => /\ last'.raised = "BackingError"
             /\ \A K \in Range(last'.calls[i].keys) :
                   /\ K \in DOMAIN redirect_cache'
                         => K \in DOMAIN redirect_cache \cup LookedUp(last'.calls)
                   /\ K \notin DOMAIN redirect_cache \cup LookedUp(last'.calls)
                         => find_redirects([Machine(0) EXCEPT
                                                !.redirect_cache = redirect_cache'],
                                           K).calls # <<>>
      ]_vars

\* the keys of the redirect records of the store whose location is K
RedirectsTo(K) == {d.key : d \in {r \in Range(RedirectDocs) : r.location = K}}

\* C18: in a session in which no backing call has failed, find_redirects(K)
\* returns the keys of the redirect records whose location is K, each once,
\* and no other key.
RedirectResultExactness ==
    (last.op = "find_redirects" /\ ~failed /\ last.raised = "")
    => /\ Range(last.ret) = RedirectsTo(last.arg)
       /\ Len(last.ret) = Cardinality(RedirectsTo(last.arg))

\* C19: until clear_cache, every entry that the redirect cache or the edition
\* index holds when an operation begins is there when the operation has
\* returned or raised, for the same key and with the same sequence of keys.
AppendOnlyEntries ==
    [][ SessionGoesOn
        => /\ \A K \in DOMAIN redirect_cache :
                 /\ K \in DOMAIN redirect_cache'
                 /\ redirect_cache'[K] = redirect_cache[K]
           /\ \A W \in IndexKeys(edition_keys_of_works_cache) :
                 /\ W \in IndexKeys(edition_keys_of_works_cache')
                 /\ IndexGet(edition_keys_of_works_cache', W)
                       = IndexGet(edition_keys_of_works_cache, W)
      ]_vars

\* an operation has added entries to the redirect cache and to the edition
\* index, which both held a non-empty entry that it did not ask for again
LaterOperationAddedEntriesReached ==
    /\ ops = 2
    /\ last.raised = ""
    /\ \E i \in DOMAIN last.calls :
          /\ last.calls[i].kind = "query"
          /\ Work(1) \notin Range(last.calls[i].keys)
          /\ Range(last.calls[i].keys) \cap IndexKeys(edition_keys_of_works_cache) # {}
    /\ \E i \in DOMAIN last.calls :
          /\ last.calls[i].kind = "things"
          /\ Author(1) \notin Range(last.calls[i].keys)
    /\ Len(IndexGet(edition_keys_of_works_cache, Work(1))) = 2
    /\ Author(1) \in DOMAIN redirect_cache
    /\ Len(redirect_cache[Author(1)]) = 2

\* C20: preload_metadata and get_metadata leave the document cache, the
\* redirect cache and the edition index as they were; preload_redirects and
\* find_redirects leave the document cache, the metadata cache and the
\* edition index as they were; preload_editions_of_works and
\* get_editions_of_work leave the metadata cache and the redirect cache as
\* they were; get_document of a cached key leaves all four as they were.
FrameOfSingleRelationOperations ==
    [][ /\ last'.op \in {"preload_metadata", "get_metadata"}
           => UNCHANGED <<cache, redirect_cache, edition_keys_of_works_cache>>
        /\ last'.op \in {"preload_redirects", "find_redirects"}
           => UNCHANGED <<cache, metadata_cache, edition_keys_of_works_cache>>
        /\ last'.op \in {"preload_editions_of_works", "get_editions_of_work"}
           => UNCHANGED <<metadata_cache, redirect_cache>>
        /\ (last'.op = "get_document" /\ last'.arg \in CacheKeys(cache))
           => UNCHANGED caches
      ]_vars

\* get_editions_of_work has filled the edition index and the document cache
\* with editions that have an ocaid, on a provider that holds metadata and
\* has the metadata database configured, and the metadata cache and the
\* redirect cache are as the operation before left them
FrameReached ==
    /\ ops = 2
    /\ ia_db
    /\ last.op = "get_editions_of_work"
    /\ last.raised = ""
    /\ \E i \in DOMAIN last.calls : last.calls[i].kind = "get_many"
    /\ edition_keys_of_works_cache # <<>>
    /\ \E d \in Range(cache) : Get(d, "ocaid", "") \notin {""} \cup DOMAIN metadata_cache
    /\ DOMAIN metadata_cache # {}
    /\ DOMAIN redirect_cache = {}

====
